---------------------------- MODULE Spec2Model ----------------------------
(***************************************************************************)
(* Model of checker.py (Eurostar Snap availability checker).               *)
(*                                                                         *)
(* Texts are sequences of one-character tokens.  Characters outside ASCII  *)
(* are written by name: "e_acute", "e_grave", "a_grave", "A_tilde",        *)
(* "a_tilde", "a_circ", "copyright", "diaeresis", "euro", "sbquo", "not",  *)
(* "ldquo", "rdquo", "endash", "nbsp" (U+00A0) and "nnbsp" (U+202F).       *)
(***************************************************************************)
EXTENDS Integers, Sequences, FiniteSets, TLC

\* None of an optional text, tuple or list; an optional dict d is <<d>>
None == <<>>

(***************************************************************************)
(* Characters and the str methods the code uses.                           *)
(***************************************************************************)
Digits == {"0", "1", "2", "3", "4", "5", "6", "7", "8", "9"}

\* what \s matches and str.strip() removes (Unicode whitespace)
Whitespace == {" ", "nbsp", "nnbsp"}

DigitVal(c) ==
    CASE c = "0" -> 0 [] c = "1" -> 1 [] c = "2" -> 2 [] c = "3" -> 3
      [] c = "4" -> 4 [] c = "5" -> 5 [] c = "6" -> 6 [] c = "7" -> 7
      [] c = "8" -> 8 [] c = "9" -> 9

DigitChar(n) ==
    CASE n = 0 -> "0" [] n = 1 -> "1" [] n = 2 -> "2" [] n = 3 -> "3"
      [] n = 4 -> "4" [] n = 5 -> "5" [] n = 6 -> "6" [] n = 7 -> "7"
      [] n = 8 -> "8" [] n = 9 -> "9"

\* str.lower() on one character
LowerChar(c) ==
    CASE c = "A" -> "a" [] c = "B" -> "b" [] c = "C" -> "c" [] c = "D" -> "d"
      [] c = "E" -> "e" [] c = "F" -> "f" [] c = "G" -> "g" [] c = "H" -> "h"
      [] c = "I" -> "i" [] c = "J" -> "j" [] c = "K" -> "k" [] c = "L" -> "l"
      [] c = "M" -> "m" [] c = "N" -> "n" [] c = "O" -> "o" [] c = "P" -> "p"
      [] c = "Q" -> "q" [] c = "R" -> "r" [] c = "S" -> "s" [] c = "T" -> "t"
      [] c = "U" -> "u" [] c = "V" -> "v" [] c = "W" -> "w" [] c = "X" -> "x"
      [] c = "Y" -> "y" [] c = "Z" -> "z"
      [] c = "A_tilde" -> "a_tilde"
      [] c = "A_grave" -> "a_grave"
      [] c = "E_acute" -> "e_acute"
      [] c = "E_grave" -> "e_grave"
      [] OTHER -> c

Lower(s) == [k \in 1..Len(s) |-> LowerChar(s[k])]

\* s.strip()
Strip(s) ==
    IF \A k \in 1..Len(s) : s[k] \in Whitespace THEN <<>>
    ELSE SubSeq(s,
                CHOOSE a \in 1..Len(s) :
                    s[a] \notin Whitespace /\ \A k \in 1..(a - 1) : s[k] \in Whitespace,
                CHOOSE b \in 1..Len(s) :
                    s[b] \notin Whitespace /\ \A k \in (b + 1)..Len(s) : s[k] \in Whitespace)

\* s.replace(old, new) for one-character old and new
Replace(s, old, new) == [k \in 1..Len(s) |-> IF s[k] = old THEN new ELSE s[k]]

\* s.replace(old, "") for a one-character old
Remove(s, old) == SelectSeq(s, LAMBDA c : c # old)

\* kw in s
Contains(s, kw) ==
    \E k \in 1..(Len(s) - Len(kw) + 1) : SubSeq(s, k, k + Len(kw) - 1) = kw

\* s.split(sep) for a one-character sep
Split(s, sep) ==
    LET seps == {k \in 1..Len(s) : s[k] = sep}
        \* the n-th separator; 0 before the first, Len(s) + 1 after the last
        at(n) == IF n = 0 THEN 0
                 ELSE IF n > Cardinality(seps) THEN Len(s) + 1
                 ELSE CHOOSE k \in seps : Cardinality({j \in seps : j < k}) = n - 1
    IN  [n \in 1..(Cardinality(seps) + 1) |-> SubSeq(s, at(n - 1) + 1, at(n) - 1)]

\* int(s) for a text of decimal digits; Invalid when int() raises ValueError
Invalid == 0 - 1

RECURSIVE DigitsToInt(_)
DigitsToInt(s) ==
    IF s = <<>> THEN 0
    ELSE 10 * DigitsToInt(SubSeq(s, 1, Len(s) - 1)) + DigitVal(s[Len(s)])

ToInt(s) ==
    LET t == Strip(s)
    IN  IF t # <<>> /\ \A k \in 1..Len(t) : t[k] \in Digits
        THEN DigitsToInt(t) ELSE Invalid

(***************************************************************************)
(* Regular expressions, as re.search applies them.  A position is the      *)
(* index of the next character to match; NoMatch is the position of a      *)
(* failed match.  re.search takes the leftmost start at which the pattern  *)
(* matches and there the first way of matching in backtracking order.  A   *)
(* match is the list of the spans <<first, last>> of its groups, <<>> for  *)
(* a group that did not take part.                                         *)
(***************************************************************************)
NoMatch == 0

DigitAt(txt, p) == p \in 1..Len(txt) /\ txt[p] \in Digits

CharAt(txt, p, c) == p \in 1..Len(txt) /\ txt[p] = c

\* the first element of ms that is not None, None when there is none
FirstSome(ms) ==
    IF \A k \in 1..Len(ms) : ms[k] = None THEN None
    ELSE ms[CHOOSE k \in 1..Len(ms) :
                ms[k] # None /\ \A j \in 1..(k - 1) : ms[j] = None]

\* after the word w, which must start at p
AfterWord(txt, p, w) ==
    IF p # NoMatch /\ p + Len(w) - 1 <= Len(txt) /\ SubSeq(txt, p, p + Len(w) - 1) = w
    THEN p + Len(w) ELSE NoMatch

\* \s* from p.  Nothing that follows \s* or \s+ in the patterns starts with
\* whitespace, so giving characters back never helps.
AfterSpaces(txt, p) ==
    IF p = NoMatch THEN NoMatch
    ELSE CHOOSE q \in p..(Len(txt) + 1) :
            /\ q = Len(txt) + 1 \/ txt[q] \notin Whitespace
            /\ \A k \in p..(q - 1) : txt[k] \in Whitespace

\* \s+ from p
AfterSpaces1(txt, p) ==
    IF p \in 1..Len(txt) /\ txt[p] \in Whitespace THEN AfterSpaces(txt, p)
    ELSE NoMatch

\* \d+ from p
AfterDigits1(txt, p) ==
    IF ~DigitAt(txt, p) THEN NoMatch
    ELSE CHOOSE q \in p..(Len(txt) + 1) :
            /\ ~DigitAt(txt, q)
            /\ \A k \in p..(q - 1) : DigitAt(txt, k)

\* (\d{1,2})c(\d{2}) from p: None, or <<first and last of the hour, first and
\* last of the minutes>>.  Two hour digits are tried first; when c does not
\* follow them it cannot follow one digit either, and the reverse.
TimeAt(txt, p, c) ==
    IF p = NoMatch THEN None
    ELSE IF /\ DigitAt(txt, p) /\ DigitAt(txt, p + 1) /\ CharAt(txt, p + 2, c)
            /\ DigitAt(txt, p + 3) /\ DigitAt(txt, p + 4)
         THEN <<p, p + 1, p + 3, p + 4>>
    ELSE IF /\ DigitAt(txt, p) /\ CharAt(txt, p + 1, c)
            /\ DigitAt(txt, p + 2) /\ DigitAt(txt, p + 3)
         THEN <<p, p, p + 2, p + 3>>
    ELSE None

\* (?:-|a_circ euro ldquo|a_circ euro rdquo|to|A_tilde nbsp), as the file
\* spells the dashes and the preposition
Separators ==
    << <<"-">>, <<"a_circ", "euro", "ldquo">>, <<"a_circ", "euro", "rdquo">>,
       <<"t", "o">>, <<"A_tilde", "nbsp">> >>

\* the position after the first alternative that matches at p
AfterSeparator(txt, p) ==
    LET ends == [k \in 1..Len(Separators) |-> AfterWord(txt, p, Separators[k])]
    IN  IF \A k \in 1..Len(ends) : ends[k] = NoMatch THEN NoMatch
        ELSE ends[CHOOSE k \in 1..Len(ends) :
                    ends[k] # NoMatch /\ \A j \in 1..(k - 1) : ends[j] = NoMatch]

\* \s*<separator>\s* from p
AfterSpacedSeparator(txt, p) ==
    AfterSpaces(txt, AfterSeparator(txt, AfterSpaces(txt, p)))

HourMinuteSpans(t) ==
    IF t = None THEN None ELSE << <<t[1], t[2]>>, <<t[3], t[4]>> >>

\* (\d{1,2}):(\d{2})
Rx_HourMinute(txt) ==
    FirstSome([st \in 1..Len(txt) |-> HourMinuteSpans(TimeAt(txt, st, ":"))])

PhraseSpans(t1, t2) ==
    IF t2 = None THEN None
    ELSE << <<t1[1], t1[2]>>, <<t1[3], t1[4]>>, <<t2[1], t2[2]>>, <<t2[3], t2[4]>> >>

\* \s+w3\s+(\d{1,2})c(\d{2}) after the first time t1
PhraseSecond(txt, t1, c, w3) ==
    IF t1 = None THEN None
    ELSE PhraseSpans(t1, TimeAt(txt,
                                AfterSpaces1(txt, AfterWord(txt, AfterSpaces1(txt, t1[4] + 1), w3)),
                                c))

\* w1\s+w2\s+(\d{1,2})c(\d{2})\s+w3\s+(\d{1,2})c(\d{2}) from st
PhraseAt(txt, st, w1, w2, c, w3) ==
    PhraseSecond(txt,
                 TimeAt(txt,
                        AfterSpaces1(txt, AfterWord(txt, AfterSpaces1(txt, AfterWord(txt, st, w1)), w2)),
                        c),
                 c, w3)

Rx_Phrase(txt, w1, w2, c, w3) ==
    FirstSome([st \in 1..Len(txt) |-> PhraseAt(txt, st, w1, w2, c, w3)])

\* d<A_tilde><copyright>part\s+entre\s+(\d{1,2}):(\d{2})\s+et\s+(\d{1,2}):(\d{2})
Rx_FrenchColon(txt) ==
    Rx_Phrase(txt, <<"d", "A_tilde", "copyright", "p", "a", "r", "t">>,
              <<"e", "n", "t", "r", "e">>, ":", <<"e", "t">>)

\* d<A_tilde><copyright>part\s+entre\s+(\d{1,2})h(\d{2})\s+et\s+(\d{1,2})h(\d{2})
Rx_FrenchH(txt) ==
    Rx_Phrase(txt, <<"d", "A_tilde", "copyright", "p", "a", "r", "t">>,
              <<"e", "n", "t", "r", "e">>, "h", <<"e", "t">>)

\* departure\s+between\s+(\d{1,2}):(\d{2})\s+and\s+(\d{1,2}):(\d{2})
Rx_English(txt) ==
    Rx_Phrase(txt, <<"d", "e", "p", "a", "r", "t", "u", "r", "e">>,
              <<"b", "e", "t", "w", "e", "e", "n">>, ":", <<"a", "n", "d">>)

StandardSpans(t1, t2) ==
    IF t2 = None THEN None ELSE << <<t1[1], t1[4]>>, <<t2[1], t2[4]>> >>

StandardSecond(txt, t1) ==
    IF t1 = None THEN None
    ELSE StandardSpans(t1, TimeAt(txt, AfterSpacedSeparator(txt, t1[4] + 1), ":"))

\* (\d{1,2}:\d{2})\s*<separator>\s*(\d{1,2}:\d{2})
Rx_Standard(txt) ==
    FirstSome([st \in 1..Len(txt) |-> StandardSecond(txt, TimeAt(txt, st, ":"))])

\* (\d{1,2})(?::?(\d{2}))? from p with an hour of n digits: the ways the
\* minutes can match, present before absent, with the colon before
\* without.  A way is <<end of the hour, start of the minutes or NoMatch,
\* end>>, ends being the position after.
HourWaysOf(txt, p, n) ==
    IF \A k \in p..(p + n - 1) : DigitAt(txt, k)
    THEN (IF CharAt(txt, p + n, ":") /\ DigitAt(txt, p + n + 1) /\ DigitAt(txt, p + n + 2)
          THEN << <<p + n, p + n + 1, p + n + 3>> >> ELSE <<>>)
         \o (IF DigitAt(txt, p + n) /\ DigitAt(txt, p + n + 1)
             THEN << <<p + n, p + n, p + n + 2>> >> ELSE <<>>)
         \o << <<p + n, NoMatch, p + n>> >>
    ELSE <<>>

\* all the ways from p in backtracking order: two hour digits before one
HourWays(txt, p) == HourWaysOf(txt, p, 2) \o HourWaysOf(txt, p, 1)

\* a way w of the first hour fits when \s*<separator>\s*\d follows it at b
WayFits(txt, w, b) == IF DigitAt(txt, b) THEN <<w, <<b>>>> ELSE None

MinutesSpan(w) == IF w[2] = NoMatch THEN <<>> ELSE <<w[2], w[3] - 1>>

NoMinutesSpans(st, first, b, second) ==
    << <<st, first[1] - 1>>, MinutesSpan(first),
       <<b, second[1] - 1>>, MinutesSpan(second) >>

\* nothing follows the second hour: its first way is taken
NoMinutesSecond(txt, st, fit) ==
    IF fit = None THEN None
    ELSE NoMinutesSpans(st, fit[1], fit[2][1], HourWays(txt, fit[2][1])[1])

NoMinutesFirst(txt, st, ways) ==
    NoMinutesSecond(txt, st,
        FirstSome([k \in 1..Len(ways) |->
                      WayFits(txt, ways[k], AfterSpacedSeparator(txt, ways[k][3]))]))

\* (\d{1,2})(?::?(\d{2}))?\s*<separator>\s*(\d{1,2})(?::?(\d{2}))?
Rx_NoMinutes(txt) ==
    FirstSome([st \in 1..Len(txt) |-> NoMinutesFirst(txt, st, HourWays(txt, st))])

NumberSpan(st, e, f) == << <<st, (IF f # NoMatch THEN f ELSE e) - 1>> >>

NumberFraction(txt, st, e) ==
    NumberSpan(st, e, AfterDigits1(txt, AfterWord(txt, e, <<".">>)))

NumberAt(txt, st) ==
    IF DigitAt(txt, st) THEN NumberFraction(txt, st, AfterDigits1(txt, st)) ELSE None

\* (\d+(?:\.\d+)?)
Rx_Number(txt) == FirstSome([st \in 1..Len(txt) |-> NumberAt(txt, st)])

\* m.group(n): the text of group n, None when it did not take part
Group(m, txt, n) ==
    IF m[n] = <<>> THEN None ELSE SubSeq(txt, m[n][1], m[n][2])

(***************************************************************************)
(* Helpers for time/price parsing.                                         *)
(***************************************************************************)
\* f"{value:02d}" for value < 100
_normalize_time_component(value) == <<DigitChar(value \div 10), DigitChar(value % 10)>>

\* f"{hh}:{mm}" of two integers
TimeText(h, m) ==
    _normalize_time_component(h) \o <<":">> \o _normalize_time_component(m)

NormalizedMatch(cleaned, m) ==
    IF m = None THEN <<>>
    ELSE TimeText(ToInt(Group(m, cleaned, 1)), ToInt(Group(m, cleaned, 2)))

NormalizedCleaned(cleaned) == NormalizedMatch(cleaned, Rx_HourMinute(cleaned))

\* "" (the empty text) when nothing matches
_normalize_time_string(time_str) ==
    IF time_str = <<>> THEN <<>>
    ELSE NormalizedCleaned(Replace(Lower(Strip(time_str)), "h", ":"))

\* the result of a four-group match: (start, end)
FourGroups(m, txt) ==
    <<TimeText(ToInt(Group(m, txt, 1)), ToInt(Group(m, txt, 2))),
      TimeText(ToInt(Group(m, txt, 3)), ToInt(Group(m, txt, 4)))>>

\* int(m2.group(n)) if m2.group(n) else 0
MinutesOrZero(g) == IF g # None THEN ToInt(g) ELSE 0

\* the last pattern: hours whose minutes may be missing
ParseNoMinutes(lowered, m2) ==
    IF m2 # None
    THEN <<TimeText(ToInt(Group(m2, lowered, 1)), MinutesOrZero(Group(m2, lowered, 2))),
           TimeText(ToInt(Group(m2, lowered, 3)), MinutesOrZero(Group(m2, lowered, 4)))>>
    ELSE None

\* if start and end: return start, end
ParseStandardTimes(lowered, start, end) ==
    IF start # <<>> /\ end # <<>> THEN <<start, end>>
    ELSE ParseNoMinutes(lowered, Rx_NoMinutes(lowered))

ParseStandard(lowered, m) ==
    IF m # None
    THEN ParseStandardTimes(lowered, _normalize_time_string(Group(m, lowered, 1)),
                            _normalize_time_string(Group(m, lowered, 2)))
    ELSE ParseNoMinutes(lowered, Rx_NoMinutes(lowered))

ParseEnglish(lowered, m) ==
    IF m # None THEN FourGroups(m, lowered)
    ELSE ParseStandard(lowered, Rx_Standard(lowered))

ParseFrenchH(lowered, m) ==
    IF m # None THEN FourGroups(m, lowered)
    ELSE ParseEnglish(lowered, Rx_English(lowered))

ParseFrenchColon(lowered, m) ==
    IF m # None THEN FourGroups(m, lowered)
    ELSE ParseFrenchH(lowered, Rx_FrenchH(lowered))

ParseLowered(lowered) == ParseFrenchColon(lowered, Rx_FrenchColon(lowered))

\* None, or the pair (start, end) of "HH:MM" texts
_parse_time_range_from_text(text) ==
    IF text = <<>> THEN None ELSE ParseLowered(Lower(Strip(text)))

MorningKeywords ==
    << <<"m", "o", "r", "n", "i", "n", "g">>, <<"m", "a", "t", "i", "n">> >>

AfternoonKeywords ==
    << <<"a", "f", "t", "e", "r", "n", "o", "o", "n">>,
       <<"a", "p", "r", "e", "s">>,
       <<"a", "p", "r", "A_tilde", "diaeresis", "s">> >>

\* any(k in text for k in keywords)
AnyIn(keywords, text) == \E k \in 1..Len(keywords) : Contains(text, keywords[k])

\* the None a band may be
NoBand == "None"

\* int(time_range[0].split(":")[0]) decides; except Exception: return None
BandOfHour(start_hour) ==
    IF start_hour = Invalid THEN NoBand
    ELSE IF start_hour < 14 THEN "morning" ELSE "afternoon"

InferBandOfText(text, time_range) ==
    IF AnyIn(MorningKeywords, text) THEN "morning"
    ELSE IF AnyIn(AfternoonKeywords, text) THEN "afternoon"
    ELSE IF time_range # None THEN BandOfHour(ToInt(Split(time_range[1], ":")[1]))
    ELSE NoBand

\* "morning", "afternoon" or NoBand; (label_text or "") is label_text here,
\* None and "" being the same empty text
_infer_band(label_text, time_range) == InferBandOfText(Lower(label_text), time_range)

(***************************************************************************)
(* Prices.  A float is kept exactly as <<integer part, fraction digits>>   *)
(* with the trailing zeros of the fraction removed; Inf is float("inf").   *)
(***************************************************************************)
Inf == <<>>

DropTrailingZeros(s) ==
    IF \A k \in 1..Len(s) : s[k] = "0" THEN <<>>
    ELSE SubSeq(s, 1, CHOOSE b \in 1..Len(s) :
                          s[b] # "0" /\ \A k \in (b + 1)..Len(s) : s[k] = "0")

FloatOfParts(parts) ==
    <<DigitsToInt(parts[1]),
      IF Len(parts) > 1 THEN DropTrailingZeros(parts[2]) ELSE <<>> >>

\* float(text) of digits, optionally followed by "." and digits
ToFloat(s) == FloatOfParts(Split(s, "."))

\* f < g on fraction digits: at the first place where they differ (a missing
\* digit is 0) f has the smaller digit
FracDigit(f, k) == IF k <= Len(f) THEN DigitVal(f[k]) ELSE 0

FracLess(f, g) ==
    \E k \in 1..Len(g) :
        /\ FracDigit(f, k) < FracDigit(g, k)
        /\ \A j \in 1..(k - 1) : FracDigit(f, j) = FracDigit(g, j)

\* a < b on floats
FloatLess(a, b) ==
    IF a = Inf THEN FALSE
    ELSE IF b = Inf THEN TRUE
    ELSE a[1] < b[1] \/ (a[1] = b[1] /\ FracLess(a[2], b[2]))

PriceOfMatch(normalized, m) ==
    IF m = None THEN Inf ELSE ToFloat(Group(m, normalized, 1))

PriceOfNormalized(normalized) == PriceOfMatch(normalized, Rx_Number(normalized))

_price_to_float(price_text) ==
    IF price_text = <<>> THEN Inf
    ELSE PriceOfNormalized(Replace(Remove(price_text, "nnbsp"), ",", "."))

(***************************************************************************)
(* Merging the time ranges of one band.                                    *)
(***************************************************************************)
MinutesOfParts(hm) == ToInt(hm[1]) * 60 + ToInt(hm[2])

\* h, m = t.split(":"); int(h) * 60 + int(m)
to_minutes(t) == MinutesOfParts(Split(t, ":"))

\* the index sorted(...)[0] comes from: the first of the least keys
FirstLeast(keys) ==
    CHOOSE k \in 1..Len(keys) :
        /\ \A j \in 1..Len(keys) : keys[k] <= keys[j]
        /\ \A j \in 1..(k - 1) : keys[j] # keys[k]

\* the index sorted(..., reverse=True)[0] comes from: the first of the
\* greatest keys
FirstGreatest(keys) ==
    CHOOSE k \in 1..Len(keys) :
        /\ \A j \in 1..Len(keys) : keys[k] >= keys[j]
        /\ \A j \in 1..(k - 1) : keys[j] # keys[k]

\* a merge that takes the list to be in order of time
_merge_time_ranges_Unsorted(time_ranges) ==
    IF time_ranges = <<>> THEN None
    ELSE <<time_ranges[1][1], time_ranges[Len(time_ranges)][2]>>

\* None for the empty list, else (start of starts[0], end of ends[0])
_merge_time_ranges(time_ranges) ==
    IF time_ranges = <<>> THEN None
    ELSE <<time_ranges[FirstLeast([k \in 1..Len(time_ranges) |->
                                      to_minutes(time_ranges[k][1])])][1],
           time_ranges[FirstGreatest([k \in 1..Len(time_ranges) |->
                                         to_minutes(time_ranges[k][2])])][2]>>

(***************************************************************************)
(* check_snap: from the price blocks of one page to the entry of a date.   *)
(*                                                                         *)
(* A block is what the page yields for one price element:                  *)
(*   element        FALSE for a dummy block (None) of the body-text        *)
(*                  fallback                                               *)
(*   innerTextOk    FALSE when block.inner_text() raises                   *)
(*   price_text     the element's inner text                               *)
(*   evaluateOk     FALSE when block.evaluate() raises (info = {})         *)
(*   timeElements, containerText, labelText, isAvailable                   *)
(*                  the fields of the dict evaluate() returns              *)
(***************************************************************************)
\* the price text of a dummy block, as the file spells it
DebugPrice ==
    <<"a_circ", "sbquo", "not", "X", "X", " ", "(", "d", "e", "b", "u", "g", ")">>

\* if not time_range: time_range = _parse_time_range_from_text(container_text)
TimeRangeOr(time_range, container_text) ==
    IF time_range # None THEN time_range
    ELSE _parse_time_range_from_text(container_text)

\* the time range of a block: the first time element that parses, else the
\* container text
BlockTimeRange(time_elements, container_text) ==
    TimeRangeOr(FirstSome([k \in 1..Len(time_elements) |->
                              _parse_time_range_from_text(time_elements[k])]),
                container_text)

BandOrDefault(band) == IF band = NoBand THEN "morning" ELSE band

\* if not band: infer from the time range, or the default
BandOr(band, time_range) ==
    IF band # NoBand THEN band
    ELSE IF time_range # None THEN BandOrDefault(_infer_band(<<>>, time_range))
    ELSE "morning"

\* the band check_snap assigns to a block
AssignBand(label_text, time_range) ==
    BandOr(_infer_band(label_text, time_range), time_range)

\* the offer is appended whether or not it has a time range
OfferOf_KeepNoTime(price_text, label_text, is_available, time_range) ==
    IF ~is_available THEN <<>>
    ELSE IF price_text # DebugPrice
         THEN <<[band |-> AssignBand(label_text, time_range),
                 price_text |-> price_text, time_range |-> time_range]>>
    ELSE <<>>

\* the offers a block appends once its texts are read: none or one
OfferOf(price_text, label_text, is_available, time_range) ==
    IF ~is_available THEN <<>>
    ELSE IF price_text # DebugPrice /\ time_range # None
         THEN <<[band |-> AssignBand(label_text, time_range),
                 price_text |-> price_text, time_range |-> time_range]>>
    ELSE <<>>

\* the offers one block appends: none or one
BlockOffers(block) ==
    IF ~block.element
    THEN OfferOf(DebugPrice, <<>>, TRUE, BlockTimeRange(<<>>, <<>>))
    ELSE IF ~block.innerTextOk THEN <<>>
    ELSE IF ~block.evaluateOk
         THEN OfferOf(Strip(block.price_text), <<>>, TRUE, BlockTimeRange(<<>>, <<>>))
    ELSE OfferOf(Strip(block.price_text), block.labelText, block.isAvailable,
                 BlockTimeRange(block.timeElements, block.containerText))

RECURSIVE PageOffers(_)
PageOffers(price_blocks) ==
    IF price_blocks = <<>> THEN <<>>
    ELSE BlockOffers(Head(price_blocks)) \o PageOffers(Tail(price_blocks))

\* the index of the first least price
FirstLeastPrice(prices) ==
    CHOOSE k \in 1..Len(prices) :
        /\ \A j \in 1..Len(prices) : ~FloatLess(prices[j], prices[k])
        /\ \A j \in 1..(k - 1) : FloatLess(prices[k], prices[j])

\* the last of the least prices
LastLeastPrice(prices) ==
    CHOOSE k \in 1..Len(prices) :
        /\ \A j \in 1..Len(prices) : ~FloatLess(prices[j], prices[k])
        /\ \A j \in (k + 1)..Len(prices) : FloatLess(prices[k], prices[j])

\* min() that keeps the last of the offers that tie
MinPriceOffer_LastOfTies(band_offers) ==
    band_offers[LastLeastPrice([k \in 1..Len(band_offers) |->
                                   _price_to_float(band_offers[k].price_text)])]

\* min(band_offers, key=lambda o: _price_to_float(o["price_text"]))
MinPriceOffer(band_offers) ==
    band_offers[FirstLeastPrice([k \in 1..Len(band_offers) |->
                                    _price_to_float(band_offers[k].price_text)])]

RECURSIVE TimeRangesOf(_)
\* [o["time_range"] for o in band_offers if o["time_range"]]
TimeRangesOf(band_offers) ==
    IF band_offers = <<>> THEN <<>>
    ELSE (IF Head(band_offers).time_range # None
          THEN <<Head(band_offers).time_range>> ELSE <<>>)
            \o TimeRangesOf(Tail(band_offers))

\* entry[band] of the offers of a band: None, or <<slot>>
SlotOf(band_offers, url) ==
    IF band_offers = <<>> THEN None
    ELSE <<[price_text |-> MinPriceOffer(band_offers).price_text,
            time_range |-> _merge_time_ranges(TimeRangesOf(band_offers)),
            url |-> url]>>

\* band_offers = [o for o in offers if o["band"] == band]
BandSlot(offers, band, url) ==
    SlotOf(SelectSeq(offers, LAMBDA o : o.band = band), url)

\* if entry["morning"] or entry["afternoon"]: results.append(entry)
EntryIfAny(entry) ==
    IF entry.morning # None \/ entry.afternoon # None THEN <<entry>> ELSE <<>>

\* a date without offers appends nothing
DateEntries_OmitEmpty(route_name, date, url, offers) ==
    IF offers # <<>>
    THEN EntryIfAny([route |-> route_name, date |-> date, url |-> url,
                     morning |-> BandSlot(offers, "morning", url),
                     afternoon |-> BandSlot(offers, "afternoon", url)])
    ELSE <<>>

\* what one date appends to results: no entry or one
DateEntries(route_name, date, url, offers) ==
    IF offers # <<>>
    THEN EntryIfAny([route |-> route_name, date |-> date, url |-> url,
                     morning |-> BandSlot(offers, "morning", url),
                     afternoon |-> BandSlot(offers, "afternoon", url)])
    ELSE <<[route |-> route_name, date |-> date, url |-> url,
            morning |-> None, afternoon |-> None]>>

(***************************************************************************)
(* save_availability_to_db: the rows of a list of entries.                 *)
(***************************************************************************)
\* a row that is flagged available whatever the slot
SlotRow_AlwaysAvailable(entry, band, slot) ==
    IF slot # None
    THEN [route |-> entry.route, travel_date |-> entry.date, band |-> band,
          price_text |-> <<slot[1].price_text>>,
          time_range_start |-> IF slot[1].time_range # None
                               THEN <<slot[1].time_range[1]>> ELSE None,
          time_range_end |-> IF slot[1].time_range # None
                             THEN <<slot[1].time_range[2]>> ELSE None,
          url |-> entry.url, is_available |-> TRUE]
    ELSE [route |-> entry.route, travel_date |-> entry.date, band |-> band,
          price_text |-> None, time_range_start |-> None,
          time_range_end |-> None, url |-> entry.url, is_available |-> TRUE]

SlotRow(entry, band, slot) ==
    IF slot # None
    THEN [route |-> entry.route, travel_date |-> entry.date, band |-> band,
          price_text |-> <<slot[1].price_text>>,
          time_range_start |-> IF slot[1].time_range # None
                               THEN <<slot[1].time_range[1]>> ELSE None,
          time_range_end |-> IF slot[1].time_range # None
                             THEN <<slot[1].time_range[2]>> ELSE None,
          url |-> entry.url, is_available |-> TRUE]
    ELSE [route |-> entry.route, travel_date |-> entry.date, band |-> band,
          price_text |-> None, time_range_start |-> None,
          time_range_end |-> None, url |-> entry.url, is_available |-> FALSE]

RECURSIVE EntryRows(_)
EntryRows(available_entries) ==
    IF available_entries = <<>> THEN <<>>
    ELSE <<SlotRow(Head(available_entries), "morning", Head(available_entries).morning),
           SlotRow(Head(available_entries), "afternoon", Head(available_entries).afternoon)>>
            \o EntryRows(Tail(available_entries))

(***************************************************************************)
(* send_email: the document.  Literal HTML is one token per piece.         *)
(***************************************************************************)
\* strftime("%Y-%m-%d") and _format_date_for_display, kept abstract: the
\* date is the number of the day
DateText(date) == <<"date:", DigitChar(date \div 10), DigitChar(date % 10)>>

Placeholder == <<"a_circ", "euro", "rdquo", "<br/><small>no availability for now</small>">>

\* a cell that leaves the window out
cell_content_NoWindow(slot) ==
    IF slot = None THEN Placeholder
    ELSE <<"<a href=\"">> \o slot[1].url \o <<"\">">>
            \o slot[1].price_text \o <<"</a>">>
            \o <<"<br/><small>no availability for now</small>">>

cell_content(slot) ==
    IF slot = None THEN Placeholder
    ELSE LET price_html == <<"<a href=\"">> \o slot[1].url \o <<"\">">>
                              \o slot[1].price_text \o <<"</a>">>
         IN  IF slot[1].time_range # None
             THEN price_html \o <<"<br/><small>between ">> \o slot[1].time_range[1]
                     \o <<" and ">> \o slot[1].time_range[2] \o <<"</small>">>
             ELSE price_html \o <<"<br/><small>no availability for now</small>">>

TableRow(r) ==
    <<"<tr>", "<td>">> \o DateText(r.date) \o <<"</td>", "<td>">>
        \o cell_content(r.morning) \o <<"</td>", "<td>">>
        \o cell_content(r.afternoon) \o <<"</td>", "</tr>">>

RECURSIVE TableRows(_)
TableRows(rows) ==
    IF rows = <<>> THEN <<>> ELSE TableRow(Head(rows)) \o TableRows(Tail(rows))

build_table(rows) ==
    <<"<table>", "<tr><th>Date</th><th>Morning</th><th>Afternoon</th></tr>">>
        \o TableRows(rows) \o <<"</table>">>

RouteNames == <<"Paris -> Amsterdam", "Amsterdam -> Paris">>

\* [e for e in available_entries if e["route"] == route]
RouteEntries(available_entries, route) ==
    SelectSeq(available_entries, LAMBDA e : e.route = route)

\* the place of entry j in the order of the dates, entries of the same date
\* keeping their order
DateRank(route_entries, j) ==
    Cardinality({m \in 1..Len(route_entries) :
                    \/ route_entries[m].date < route_entries[j].date
                    \/ route_entries[m].date = route_entries[j].date /\ m <= j})

\* sorted(route_entries, key=lambda e: e["date"]), a stable sort
SortedByDate(route_entries) ==
    [k \in 1..Len(route_entries) |->
        route_entries[CHOOSE j \in 1..Len(route_entries) :
                          DateRank(route_entries, j) = k]]

\* a section for every route, with or without entries
Section_AlwaysShown(available_entries, route) ==
    <<"<h3>", route, "</h3>">>
        \o build_table(SortedByDate(RouteEntries(available_entries, route)))

Section(available_entries, route) ==
    LET route_entries == RouteEntries(available_entries, route)
    IN  IF route_entries = <<>> THEN <<>>
        ELSE <<"<h3>", route, "</h3>">> \o build_table(SortedByDate(route_entries))

Header == <<"<div><h2>The bot for cheap tickets</h2><p>Eurostar Snap availability</p></div>">>

Message(available_entries) ==
    Header \o Section(available_entries, RouteNames[1])
           \o Section(available_entries, RouteNames[2])

(***************************************************************************)
(* Inputs: what the pages and the environment may hold.                    *)
(***************************************************************************)
Block(price_text, timeElements, containerText, labelText, isAvailable) ==
    [element |-> TRUE, innerTextOk |-> TRUE, price_text |-> price_text,
     evaluateOk |-> TRUE, timeElements |-> timeElements,
     containerText |-> containerText, labelText |-> labelText,
     isAvailable |-> isAvailable]

\* a dummy block of the body-text fallback (price_blocks = [None] * n)
DummyBlock ==
    [element |-> FALSE, innerTextOk |-> TRUE, price_text |-> <<>>,
     evaluateOk |-> TRUE, timeElements |-> <<>>, containerText |-> <<>>,
     labelText |-> <<>>, isAvailable |-> TRUE]

Price45 == <<"4", "5", ",", "0", "0", " ", "euro">>
Price39 == <<"3", "9", " ", "euro">>
PriceUnknown == <<"e", "u", "r", "o", "s">>

Time_0610_1400 == <<"6", ":", "1", "0", "-", "1", "4", ":", "0", "0">>
Time_1500_1800 == <<"1", "5", ":", "0", "0", " ", "t", "o", " ", "1", "8", ":", "0", "0">>
Time_None == <<"s", "o", "o", "n">>

Label_Matin == <<"M", "a", "t", "i", "n">>
Label_Afternoon == <<"A", "f", "t", "e", "r", "n", "o", "o", "n">>

\* the pages a date of a run may show
RunPages ==
    { <<>>,
      <<DummyBlock>>,
      <<Block(Price45, <<Time_0610_1400>>, <<>>, <<>>, TRUE)>>,
      <<Block(Price45, <<Time_0610_1400>>, <<>>, <<>>, TRUE),
        Block(Price39, <<Time_1500_1800>>, <<>>, <<>>, TRUE)>>,
      <<Block(Price39, <<Time_None>>, <<>>, Label_Afternoon, TRUE)>> }

\* EMAIL_RECIPIENT: None when unset, else <<text>>
RecipientSettings ==
    { None,
      << <<>> >>,
      << <<" ", ",", " ">> >>,
      << <<"a", "@", "x">> >>,
      << <<"a", "@", "x", ",", " ", "b", "@", "x">> >> }

(***************************************************************************)
(* Bounds.                                                                 *)
(***************************************************************************)
\* dates of one run whose check raises while the site is up
MaxScrapeErrors == 1
\* dates of one run whose page has price blocks
MaxOfferPages == 1

(***************************************************************************)
(* The program: main() and what it calls.                                  *)
(***************************************************************************)
SMTP_SERVER == "smtp.gmail.com"
SMTP_PORT == 587
SNAP_URLS == <<"SNAP_PARIS_TO_AMS", "SNAP_AMS_TO_PARIS">>
\* for i in range(1, 9)
LastDay == 8

\* base_url.format(date=date)
Url(base_url, date) == <<base_url, "outbound=">> \o DateText(date)

VARIABLES
    pc,               \* where main.run is
    EMAIL_RECIPIENT,  \* os.getenv("EMAIL_RECIPIENT")
    credentials,      \* EMAIL_SENDER and EMAIL_PASSWORD are set
    httpCredential,   \* an API key of an HTTP mail service is in the
                      \* environment (no line of the program reads one)
    siteUp,           \* the site answers (else every page.goto raises)
    route,            \* which check_snap call runs: 1 or 2
    i,                \* the loop variable of check_snap
    results,          \* the list check_snap builds
    snap_1,           \* the list the first check_snap returned
    all_available,    \* snap_1 + snap_2
    visited,          \* the dates whose check began, in order, each with
                      \* whether its try block raised
    scrapeErrors,     \* dates whose check raised while the site is up
    offerPages,       \* dates whose page had price blocks
    db,               \* the committed rows of table availability
    message,          \* the document send_email built (None before)
    smtp,             \* the SMTP calls send_email made, each with its outcome
    outbox,           \* the messages the server accepted
    email_result,     \* "none", "returned" or "raised": how send_email ended
    log,              \* what main.run printed after send_email
    fin,              \* input of the function under study
    fout              \* its output

progVars == <<pc, EMAIL_RECIPIENT, credentials, httpCredential, siteUp, route, i, results,
              snap_1, all_available, visited, scrapeErrors, offerPages, db,
              message, smtp, outbox, email_result, log>>
fnVars == <<fin, fout>>
vars == <<pc, EMAIL_RECIPIENT, credentials, httpCredential, siteUp, route, i, results,
          snap_1, all_available, visited, scrapeErrors, offerPages, db,
          message, smtp, outbox, email_result, log, fin, fout>>

ProgInit ==
    /\ pc = "init_db"
    /\ EMAIL_RECIPIENT \in RecipientSettings
    /\ credentials \in BOOLEAN
    /\ httpCredential \in BOOLEAN
    /\ siteUp \in BOOLEAN
    /\ route = 1
    /\ i = 1
    /\ results = <<>>
    /\ snap_1 = <<>>
    /\ all_available = <<>>
    /\ visited = <<>>
    /\ scrapeErrors = 0
    /\ offerPages = 0
    /\ db = <<>>
    /\ message = None
    /\ smtp = <<>>
    /\ outbox = <<>>
    /\ email_result = "none"
    /\ log = <<>>

Init ==
    /\ ProgInit
    /\ fin = <<>>
    /\ fout = <<>>

\* an exception nothing catches: asyncio.run(run()) raises, the process ends
Crash ==
    /\ pc' = "crashed"
    /\ UNCHANGED <<EMAIL_RECIPIENT, credentials, httpCredential, siteUp, route, i, results,
                   snap_1, all_available, visited, scrapeErrors, offerPages,
                   db, message, smtp, outbox, email_result, log, fin, fout>>

\* init_database()
InitDatabase ==
    /\ pc = "init_db"
    /\ pc' = "launch"
    /\ UNCHANGED <<EMAIL_RECIPIENT, credentials, httpCredential, siteUp, route, i, results,
                   snap_1, all_available, visited, scrapeErrors, offerPages,
                   db, message, smtp, outbox, email_result, log, fin, fout>>

\* init_database() raises (no connection)
InitDatabaseRaises ==
    /\ pc = "init_db"
    /\ Crash

\* check_snap: playwright.chromium.launch(), browser.new_page(), results = []
LaunchBrowser ==
    /\ pc = "launch"
    /\ pc' = "dates"
    /\ i' = 1
    /\ results' = <<>>
    /\ UNCHANGED <<EMAIL_RECIPIENT, credentials, httpCredential, siteUp, route, snap_1,
                   all_available, visited, scrapeErrors, offerPages, db,
                   message, smtp, outbox, email_result, log, fin, fout>>

\* check_snap: playwright.chromium.launch() or browser.new_page() raises
LaunchBrowserRaises ==
    /\ pc = "launch"
    /\ Crash

\* check_snap: one iteration of the loop whose try block completes
CheckDate ==
    /\ pc = "dates"
    /\ i <= LastDay
    /\ siteUp
    /\ \E price_blocks \in RunPages :
          /\ price_blocks # <<>> => offerPages < MaxOfferPages
          /\ offerPages' = IF price_blocks # <<>> THEN offerPages + 1 ELSE offerPages
          /\ results' = results \o DateEntries(RouteNames[route], i,
                                               Url(SNAP_URLS[route], i),
                                               PageOffers(price_blocks))
    /\ visited' = Append(visited, [route |-> route, i |-> i, raised |-> FALSE])
    /\ i' = i + 1
    /\ UNCHANGED <<pc, EMAIL_RECIPIENT, credentials, httpCredential, siteUp, route, snap_1,
                   all_available, scrapeErrors, db, message, smtp, outbox,
                   email_result, log, fin, fout>>

\* an exception of one date that leaves the loop: the later dates are skipped
CheckDateExcept_Abort ==
    /\ pc = "dates"
    /\ i <= LastDay
    /\ siteUp => scrapeErrors < MaxScrapeErrors
    /\ scrapeErrors' = IF siteUp THEN scrapeErrors + 1 ELSE scrapeErrors
    /\ visited' = Append(visited, [route |-> route, i |-> i, raised |-> TRUE])
    /\ i' = LastDay + 1
    /\ UNCHANGED <<pc, EMAIL_RECIPIENT, credentials, httpCredential, siteUp, route, results,
                   snap_1, all_available, offerPages, db, message, smtp,
                   outbox, email_result, log, fin, fout>>

\* check_snap: one iteration whose try block raises (page.goto,
\* wait_for_timeout, query_selector_all, inner_text): except prints, the loop
\* goes on
CheckDateExcept ==
    /\ pc = "dates"
    /\ i <= LastDay
    /\ siteUp => scrapeErrors < MaxScrapeErrors
    /\ scrapeErrors' = IF siteUp THEN scrapeErrors + 1 ELSE scrapeErrors
    /\ visited' = Append(visited, [route |-> route, i |-> i, raised |-> TRUE])
    /\ i' = i + 1
    /\ UNCHANGED <<pc, EMAIL_RECIPIENT, credentials, httpCredential, siteUp, route, results,
                   snap_1, all_available, offerPages, db, message, smtp,
                   outbox, email_result, log, fin, fout>>

\* check_snap: browser.close(); return results -- and main.run goes on to the
\* second route, or to all_available = snap_1 + snap_2
ReturnResults ==
    /\ pc = "dates"
    /\ i > LastDay
    /\ IF route = 1
       THEN /\ snap_1' = results
            /\ route' = 2
            /\ pc' = "launch"
            /\ UNCHANGED all_available
       ELSE /\ all_available' = snap_1 \o results
            /\ pc' = "save"
            /\ UNCHANGED <<snap_1, route>>
    /\ UNCHANGED <<EMAIL_RECIPIENT, credentials, httpCredential, siteUp, i, results, visited,
                   scrapeErrors, offerPages, db, message, smtp, outbox,
                   email_result, log, fin, fout>>

\* save_availability_to_db(all_available): the rows, then commit
SaveToDb ==
    /\ pc = "save"
    /\ db' = db \o EntryRows(all_available)
    /\ pc' = "email"
    /\ UNCHANGED <<EMAIL_RECIPIENT, credentials, httpCredential, siteUp, route, i, results,
                   snap_1, all_available, visited, scrapeErrors, offerPages,
                   message, smtp, outbox, email_result, log, fin, fout>>

\* save_availability_to_db raises before commit: nothing is written
SaveToDbRaises ==
    /\ pc = "save"
    /\ Crash

\* check_snap: browser.close() raises
CloseBrowserRaises ==
    /\ pc = "dates"
    /\ i > LastDay
    /\ Crash

(***************************************************************************)
(* send_email(all_available), called by main.run inside try.               *)
(***************************************************************************)
\* the calls of the with-block, in order
SmtpCalls == <<"connect", "starttls", "login", "sendmail", "quit">>

\* EMAIL_RECIPIENT.split(",")
Recipients == Split(EMAIL_RECIPIENT[1], ",")

\* an address the server can accept (smtplib.quoteaddr trims it); when the
\* server refuses every recipient, sendmail raises SMTPRecipientsRefused
Deliverable(addr) == Strip(addr) # <<>>

\* a session that falls back to another host once a call failed
SmtpSession_AltHost(n, lastOk) ==
    [k \in 1..n |-> [call |-> SmtpCalls[k], host |-> SMTP_SERVER,
                     port |-> SMTP_PORT, ok |-> (k < n \/ lastOk)]]
        \o (IF lastOk THEN <<>>
            ELSE <<[call |-> "connect", host |-> "smtp-relay.gmail.com",
                    port |-> SMTP_PORT, ok |-> FALSE]>>)

\* the calls made when the first n calls are made and the last one is ok or not
SmtpSession(n, lastOk) ==
    [k \in 1..n |-> [call |-> SmtpCalls[k], host |-> SMTP_SERVER,
                     port |-> SMTP_PORT, ok |-> (k < n \/ lastOk)]]

\* whether the session can end like this
SessionPossible(n, lastOk) ==
    /\ lastOk => n = Len(SmtpCalls)
    /\ (n > 3 \/ (n = 3 /\ lastOk)) => credentials
    /\ (n > 4 \/ (n = 4 /\ lastOk)) => \E k \in 1..Len(Recipients) : Deliverable(Recipients[k])

\* if not available_entries: return
SendEmailNothing ==
    /\ pc = "email"
    /\ all_available = <<>>
    /\ email_result' = "returned"
    /\ pc' = "email_returned"
    /\ UNCHANGED <<EMAIL_RECIPIENT, credentials, httpCredential, siteUp, route, i, results,
                   snap_1, all_available, visited, scrapeErrors, offerPages,
                   db, message, smtp, outbox, log, fin, fout>>

\* EMAIL_RECIPIENT is None: EMAIL_RECIPIENT.split raises AttributeError
SendEmailUnset ==
    /\ pc = "email"
    /\ all_available # <<>>
    /\ EMAIL_RECIPIENT = None
    /\ message' = Message(all_available)
    /\ email_result' = "raised"
    /\ pc' = "email_raised"
    /\ UNCHANGED <<EMAIL_RECIPIENT, credentials, httpCredential, siteUp, route, i, results,
                   snap_1, all_available, visited, scrapeErrors, offerPages,
                   db, smtp, outbox, log, fin, fout>>

\* send_email with one retry: a session that failed is followed by another
SendEmailSmtp_Retry ==
    /\ pc = "email"
    /\ all_available # <<>>
    /\ EMAIL_RECIPIENT # None
    /\ message' = Message(all_available)
    /\ \E n \in 1..Len(SmtpCalls), lastOk \in BOOLEAN :
          /\ SessionPossible(n, lastOk)
          /\ smtp' = IF lastOk THEN smtp \o SmtpSession(n, lastOk)
                     ELSE smtp \o SmtpSession(n, lastOk) \o SmtpSession(n, lastOk)
          /\ outbox' = IF n > 4 \/ (n = 4 /\ lastOk)
                       THEN Append(outbox, [to |-> Recipients, msg |-> message'])
                       ELSE outbox
          /\ email_result' = IF lastOk THEN "returned" ELSE "raised"
          /\ pc' = IF lastOk THEN "email_returned" ELSE "email_raised"
    /\ UNCHANGED <<EMAIL_RECIPIENT, credentials, httpCredential, siteUp, route, i, results,
                   snap_1, all_available, visited, scrapeErrors, offerPages,
                   db, log, fin, fout>>

\* the SMTP session: each call may raise, and the first that does ends
\* send_email with that exception
SendEmailSmtp ==
    /\ pc = "email"
    /\ all_available # <<>>
    /\ EMAIL_RECIPIENT # None
    /\ message' = Message(all_available)
    /\ \E n \in 1..Len(SmtpCalls), lastOk \in BOOLEAN :
          /\ SessionPossible(n, lastOk)
          /\ smtp' = smtp \o SmtpSession(n, lastOk)
          /\ outbox' = IF n > 4 \/ (n = 4 /\ lastOk)
                       THEN Append(outbox, [to |-> Recipients, msg |-> message'])
                       ELSE outbox
          /\ email_result' = IF lastOk THEN "returned" ELSE "raised"
          /\ pc' = IF lastOk THEN "email_returned" ELSE "email_raised"
    /\ UNCHANGED <<EMAIL_RECIPIENT, credentials, httpCredential, siteUp, route, i, results,
                   snap_1, all_available, visited, scrapeErrors, offerPages,
                   db, log, fin, fout>>

\* main.run: send_email returned
RunEmailReturned ==
    /\ pc = "email_returned"
    /\ log' = Append(log, "Email sent successfully")
    /\ pc' = "done"
    /\ UNCHANGED <<EMAIL_RECIPIENT, credentials, httpCredential, siteUp, route, i, results,
                   snap_1, all_available, visited, scrapeErrors, offerPages,
                   db, message, smtp, outbox, email_result, fin, fout>>

\* main.run without its except clause: the exception leaves run()
RunEmailExcept_Uncaught ==
    /\ pc = "email_raised"
    /\ Crash

\* main.run: except Exception
RunEmailExcept ==
    /\ pc = "email_raised"
    /\ log' = log \o <<"Email failed", "Data saved to database successfully">>
    /\ pc' = "done"
    /\ UNCHANGED <<EMAIL_RECIPIENT, credentials, httpCredential, siteUp, route, i, results,
                   snap_1, all_available, visited, scrapeErrors, offerPages,
                   db, message, smtp, outbox, email_result, fin, fout>>

Next ==
    \/ InitDatabase
    \/ InitDatabaseRaises
    \/ LaunchBrowser
    \/ LaunchBrowserRaises
    \/ CheckDate
    \/ CheckDateExcept
    \/ ReturnResults
    \/ CloseBrowserRaises
    \/ SaveToDb
    \/ SaveToDbRaises
    \/ SendEmailNothing
    \/ SendEmailUnset
    \/ SendEmailSmtp
    \/ RunEmailReturned
    \/ RunEmailExcept

Spec == Init /\ [][Next]_vars

(***************************************************************************)
(* The functions on their own: the input is drawn, the function applied.   *)
(* fin is the input, fout is None until the function returned and <<v>>    *)
(* after it returned v.                                                    *)
(***************************************************************************)
\* no run of main() is under way
Idle ==
    /\ pc = "function"
    /\ EMAIL_RECIPIENT = None
    /\ credentials = FALSE
    /\ httpCredential = FALSE
    /\ siteUp = FALSE
    /\ route = 1
    /\ i = 1
    /\ results = <<>>
    /\ snap_1 = <<>>
    /\ all_available = <<>>
    /\ visited = <<>>
    /\ scrapeErrors = 0
    /\ offerPages = 0
    /\ db = <<>>
    /\ message = None
    /\ smtp = <<>>
    /\ outbox = <<>>
    /\ email_result = "none"
    /\ log = <<>>

Label_MORNING == <<"M", "O", "R", "N", "I", "N", "G">>
Label_Apres == <<"A", "p", "r", "e", "s", "-", "m", "i", "d", "i">>
\* "Apres-midi" with its grave accent
Label_ApresGrave == <<"A", "p", "r", "e_grave", "s", "-", "m", "i", "d", "i">>
\* the same label read in the wrong encoding, as the keyword list spells it
Label_ApresMojibake == <<"a", "p", "r", "A_tilde", "diaeresis", "s", "-", "m", "i", "d", "i">>
Label_Both == <<"m", "a", "t", "i", "n", "/", "a", "f", "t", "e", "r", "n", "o", "o", "n">>
Label_Other == <<"S", "n", "a", "p">>

Time_1400_1800 == <<"1", "4", ":", "0", "0", "-", "1", "8", ":", "0", "0">>
Time_1359_1500 == <<"1", "3", ":", "5", "9", " ", "-", " ", "1", "5", ":", "0", "0">>
Time_7_12 == <<"7", "-", "1", "2">>
Time_0670_0900 == <<"6", ":", "7", "0", "-", "9", ":", "0", "0">>
Time_0710_0900 == <<"7", ":", "1", "0", "-", "9", ":", "0", "0">>
\* "D<e_acute>part entre 06:10 et 14:00"
Time_DepartEntre ==
    <<"D", "e_acute", "p", "a", "r", "t", " ", "e", "n", "t", "r", "e", " ",
      "0", "6", ":", "1", "0", " ", "e", "t", " ", "1", "4", ":", "0", "0">>

BandLabels ==
    {<<>>, Label_Matin, Label_MORNING, Label_Afternoon, Label_Apres,
     Label_ApresGrave, Label_ApresMojibake, Label_Both, Label_Other}

BandTimes ==
    {<<>>, Time_None, Time_0610_1400, Time_1500_1800, Time_1400_1800,
     Time_1359_1500, Time_7_12}

BandInit ==
    /\ Idle
    /\ fin \in [label_text : BandLabels, time_text : BandTimes]
    /\ fout = None

\* check_snap, for one block: its time range, then its band
InferBand ==
    /\ fout = None
    /\ LET time_range == BlockTimeRange(<<fin.time_text>>, <<>>)
       IN  fout' = <<[time_range |-> time_range,
                      band |-> AssignBand(fin.label_text, time_range)]>>
    /\ UNCHANGED <<progVars, fin>>

BandSpec == BandInit /\ [][InferBand]_vars

\* blocks of one page
MaxBlocks == 2

Price45Plain == <<"4", "5", " ", "euro">>

PageBlocks ==
    { Block(Price45, <<Time_0610_1400>>, <<>>, <<>>, TRUE),
      Block(Price39, <<Time_1500_1800>>, <<>>, <<>>, TRUE),
      Block(Price45Plain, <<Time_None>>, Time_7_12, <<>>, TRUE),
      Block(PriceUnknown, <<Time_1359_1500>>, <<>>, <<>>, TRUE),
      Block(Price39, <<Time_None>>, <<>>, Label_Afternoon, TRUE),
      Block(Price39, <<Time_1400_1800>>, <<>>, <<>>, FALSE),
      Block(Price45, <<Time_DepartEntre>>, <<>>, <<>>, TRUE),
      [Block(Price39, <<Time_1500_1800>>, <<>>, <<>>, TRUE) EXCEPT !.evaluateOk = FALSE],
      [Block(Price39, <<Time_1500_1800>>, <<>>, <<>>, TRUE) EXCEPT !.innerTextOk = FALSE],
      DummyBlock }

RECURSIVE SeqsUpTo(_, _)
\* the sequences over S of length at most n
SeqsUpTo(S, n) ==
    IF n = 0 THEN {<<>>}
    ELSE LET shorter == SeqsUpTo(S, n - 1)
         IN  shorter \cup {Append(q, x) : q \in shorter, x \in S}

AggregateInit ==
    /\ Idle
    /\ fin \in SeqsUpTo(PageBlocks, MaxBlocks)
    /\ fout = None

\* check_snap, for the price blocks of one date: the offers, then the entry
AggregateDate ==
    /\ fout = None
    /\ LET offers == PageOffers(fin)
       IN  fout' = <<[offers |-> offers,
                      entries |-> DateEntries(RouteNames[1], 1,
                                              Url(SNAP_URLS[1], 1), offers)]>>
    /\ UNCHANGED <<progVars, fin>>

AggregateSpec == AggregateInit /\ [][AggregateDate]_vars

\* time ranges of one band
MaxRanges == 3

MergeRanges ==
    {_parse_time_range_from_text(t) :
        t \in {Time_0610_1400, Time_1500_1800, Time_7_12, Time_0670_0900,
               Time_0710_0900}}

MergeInit ==
    /\ Idle
    /\ fin \in SeqsUpTo(MergeRanges, MaxRanges)
    /\ fout = None

MergeTimeRanges ==
    /\ fout = None
    /\ fout' = <<_merge_time_ranges(fin)>>
    /\ UNCHANGED <<progVars, fin>>

MergeSpec == MergeInit /\ [][MergeTimeRanges]_vars

\* rows of one table
MaxRows == 2

RenderSlots ==
    { None,
      <<[price_text |-> Price45,
         time_range |-> _parse_time_range_from_text(Time_0610_1400),
         url |-> Url(SNAP_URLS[1], 1)]>>,
      <<[price_text |-> Price39,
         time_range |-> _parse_time_range_from_text(Time_1500_1800),
         url |-> Url(SNAP_URLS[1], 1)]>>,
      <<[price_text |-> Price39, time_range |-> None,
         url |-> Url(SNAP_URLS[1], 1)]>> }

RenderEntries ==
    { [route |-> RouteNames[1], date |-> 1, url |-> Url(SNAP_URLS[1], 1),
       morning |-> m, afternoon |-> a] : m \in RenderSlots, a \in RenderSlots }

RenderInit ==
    /\ Idle
    /\ fin \in SeqsUpTo(RenderEntries, MaxRows) \ {<<>>}
    /\ fout = None

\* send_email.build_table(rows)
BuildTable ==
    /\ fout = None
    /\ fout' = <<build_table(fin)>>
    /\ UNCHANGED <<progVars, fin>>

RenderSpec == RenderInit /\ [][BuildTable]_vars

(***************************************************************************)
(* _parse_time_range_from_text on its own.  A text is written from a form  *)
(* and the hours and minutes it names.                                     *)
(***************************************************************************)
\* an hour as a text writes it: "6" or "06"
HourText(h, padded) ==
    IF h < 10 /\ ~padded THEN <<DigitChar(h)>>
    ELSE <<DigitChar(h \div 10), DigitChar(h % 10)>>

\* a time of the day with its two-digit minutes: "6:10", "06h10"
ClockText(h, m, c, padded) ==
    HourText(h, padded) \o <<c, DigitChar(m \div 10), DigitChar(m % 10)>>

\* the forms that name a start and an end with their minutes
PhraseForms == {"french_colon", "french_h", "english"}
SeparatorForms == {"dash", "to"}
\* texts without a time range: "", "soon", "45,00 <euro>", "2025-10-14"
OtherForms == {"empty", "word", "price", "day"}

Text_Day == <<"2", "0", "2", "5", "-", "1", "0", "-", "1", "4">>

FormOpening(form) ==
    CASE form \in {"french_colon", "french_h"} ->
            <<"D", "e_acute", "p", "a", "r", "t", " ", "e", "n", "t", "r", "e", " ">>
      [] form = "english" ->
            <<"D", "e", "p", "a", "r", "t", "u", "r", "e", " ",
              "b", "e", "t", "w", "e", "e", "n", " ">>
      [] OTHER -> <<>>

FormBetween(form) ==
    CASE form \in {"french_colon", "french_h"} -> <<" ", "e", "t", " ">>
      [] form = "english" -> <<" ", "a", "n", "d", " ">>
      [] form = "to" -> <<" ", "t", "o", " ">>
      [] OTHER -> <<"-">>

FormColon(form) == IF form = "french_h" THEN "h" ELSE ":"

\* the text of an input
TextOf(f) ==
    CASE f.form = "empty" -> <<>>
      [] f.form = "word" -> Time_None
      [] f.form = "price" -> Price45
      [] f.form = "day" -> Text_Day
      [] f.form = "hours" ->
            HourText(f.sh, f.padded) \o <<"-">> \o HourText(f.eh, f.padded)
      [] OTHER ->
            FormOpening(f.form)
                \o ClockText(f.sh, f.sm, FormColon(f.form), f.padded)
                \o FormBetween(f.form)
                \o ClockText(f.eh, f.em, FormColon(f.form), f.padded)

StartHours == {6, 14}
EndHours == {9, 23}
StartMinutes == {0, 10}
EndMinutes == {0, 59}

ParseInputs ==
    [form : PhraseForms \cup SeparatorForms, padded : BOOLEAN,
     sh : StartHours, sm : StartMinutes, eh : EndHours, em : EndMinutes]
    \cup [form : {"hours"}, padded : BOOLEAN,
          sh : StartHours, sm : {0}, eh : EndHours, em : {0}]
    \cup [form : OtherForms, padded : {FALSE}, sh : {0}, sm : {0}, eh : {0}, em : {0}]

ParseInit ==
    /\ Idle
    /\ fin \in ParseInputs
    /\ fout = None

ParseTimeRange ==
    /\ fout = None
    /\ fout' = <<_parse_time_range_from_text(TextOf(fin))>>
    /\ UNCHANGED <<progVars, fin>>

ParseSpec == ParseInit /\ [][ParseTimeRange]_vars

(***************************************************************************)
(* Delivery on its own: the runs from the call of send_email on.  The      *)
(* first dates of each route were loaded, their pages are drawn, and the   *)
(* check of every other date raised.                                       *)
(***************************************************************************)
\* dates of one run that were loaded
MaxLoaded == 2

\* the pages a loaded date may have shown: no price block, or one offer
DeliveryPages ==
    { <<>>, <<Block(Price45, <<Time_0610_1400>>, <<>>, <<>>, TRUE)>> }

\* the results of route r when its first dates showed these pages
LoadedResults(r, pages) ==
    [d \in 1..Len(pages) |->
        DateEntries(RouteNames[r], d, Url(SNAP_URLS[r], d), PageOffers(pages[d]))[1]]

\* the dates whose check began, the first n1 of the first route and the
\* first n2 of the second having been loaded
LoadedVisited(n1, n2) ==
    [k \in 1..(2 * LastDay) |->
        [route |-> ((k - 1) \div LastDay) + 1,
         i |-> ((k - 1) % LastDay) + 1,
         raised |-> IF k <= LastDay THEN k > n1 ELSE k - LastDay > n2]]

DeliveryInit ==
    /\ pc = "email"
    /\ EMAIL_RECIPIENT \in RecipientSettings
    /\ credentials \in BOOLEAN
    /\ httpCredential \in BOOLEAN
    /\ route = 2
    /\ i = LastDay + 1
    /\ \E pages \in SeqsUpTo(DeliveryPages, MaxLoaded), pages_2 \in {<<>>, << <<>> >>} :
          /\ siteUp = (pages # <<>> \/ pages_2 # <<>>)
          /\ snap_1 = LoadedResults(1, pages)
          /\ results = LoadedResults(2, pages_2)
          /\ visited = LoadedVisited(Len(pages), Len(pages_2))
          /\ scrapeErrors = IF siteUp THEN 2 * LastDay - Len(pages) - Len(pages_2) ELSE 0
          /\ offerPages = Cardinality({k \in 1..Len(pages) : pages[k] # <<>>})
    /\ all_available = snap_1 \o results
    /\ db = EntryRows(all_available)
    /\ message = None
    /\ smtp = <<>>
    /\ outbox = <<>>
    /\ email_result = "none"
    /\ log = <<>>
    /\ fin = <<>>
    /\ fout = <<>>

\* send_email, called by main.run
SendEmail == SendEmailNothing \/ SendEmailUnset \/ SendEmailSmtp

\* main.run after send_email returned or raised
AfterEmail == RunEmailReturned \/ RunEmailExcept

DeliveryNext == SendEmail \/ AfterEmail

\* each call send_email makes returns or raises, and main.run goes on
DeliverySpec ==
    DeliveryInit /\ [][DeliveryNext]_vars /\ WF_vars(SendEmail) /\ WF_vars(AfterEmail)

(***************************************************************************)
(* Delivery.                                                               *)
(***************************************************************************)
\* C1, as stated: no exception leaves send_email.
C1_NoExceptionLeavesSendEmail == email_result # "raised"

\* C1, amended: send_email itself raises on a missing recipient setting and
\* on every transport failure, but the exception never leaves main.run: it
\* is caught there, the run completes, and it ends with the failure logged
\* when send_email raised and with the success logged when it returned; a
\* run that crashed never reached delivery.
C1_DeliveryNeverEndsTheRun ==
    /\ pc = "crashed" => email_result = "none"
    /\ pc = "email_raised" => email_result = "raised"
    /\ pc = "email_returned" => email_result = "returned"
    /\ pc = "done" =>
          \/ email_result = "raised"
               /\ log = <<"Email failed", "Data saved to database successfully">>
          \/ email_result = "returned" /\ log = <<"Email sent successfully">>

\* a transport failure left send_email and the run completed
C1_Witness ==
    /\ pc = "done"
    /\ email_result = "raised"
    /\ smtp # <<>>
    /\ ~smtp[Len(smtp)].ok

\* delivery has ended: send_email returned or raised
DeliveryEnded == pc \in {"email_returned", "email_raised", "done"}

\* the sessions opened: the connect calls made
Connects == {k \in 1..Len(smtp) : smtp[k].call = "connect"}

ZeroValidRecipients ==
    IF EMAIL_RECIPIENT = None THEN TRUE
    ELSE \A k \in 1..Len(Recipients) : Strip(Recipients[k]) = <<>>

\* C4: with zero valid recipients delivery is a no-op: no channel is
\* attempted, no message is sent and no error is produced.
C4_NoRecipientsIsNoOp ==
    (DeliveryEnded /\ ZeroValidRecipients) =>
        /\ smtp = <<>>
        /\ outbox = <<>>
        /\ email_result = "returned"

(***************************************************************************)
(* Bands.                                                                  *)
(***************************************************************************)
\* the label contains one of the keywords, whatever the case of the letters
HasKeyword(label_text, keywords) ==
    \E k \in 1..Len(keywords) : Contains(Lower(label_text), Lower(keywords[k]))

\* the hour of an "HH:MM" text
ClockHour(t) == DigitVal(t[1]) * 10 + DigitVal(t[2])

\* the minutes of the day of an "HH:MM" text
ClockMinutes(t) == ClockHour(t) * 60 + DigitVal(t[4]) * 10 + DigitVal(t[5])

\* the band the priority order gives
BandByPriority(label_text, time_range) ==
    IF HasKeyword(label_text, MorningKeywords) THEN "morning"
    ELSE IF HasKeyword(label_text, AfternoonKeywords) THEN "afternoon"
    ELSE IF time_range # None
         THEN (IF ClockHour(time_range[1]) < 14 THEN "morning" ELSE "afternoon")
    ELSE "morning"

\* C5: the band of every (label, time range) pair follows the priority
\* order: morning keyword, afternoon keyword, start hour of the time range
\* against 14, default morning; it is always morning or afternoon.
C5_BandFollowsPriorityOrder ==
    fout # None =>
        /\ fout[1].band \in {"morning", "afternoon"}
        /\ fout[1].band = BandByPriority(fin.label_text, fout[1].time_range)

(***************************************************************************)
(* Aggregation of the offers of one date.                                  *)
(***************************************************************************)
\* the offers of a band, in the order they were seen
OffersOfBand(offers, band) == SelectSeq(offers, LAMBDA o : o.band = band)

PricesOf(band_offers) ==
    [k \in 1..Len(band_offers) |-> _price_to_float(band_offers[k].price_text)]

HasDigit(text) == \E k \in 1..Len(text) : text[k] \in Digits

\* offer k has the least price and is the first that has it
IsFirstLeast(prices, k) ==
    /\ \A j \in 1..Len(prices) : ~FloatLess(prices[j], prices[k])
    /\ \A j \in 1..(k - 1) : FloatLess(prices[k], prices[j])

\* the slot of a band shows the price text of the first of its cheapest
\* offers, and an offer without a number is cheapest only among such offers
SlotShowsCheapest(band_offers, prices, slot) ==
    band_offers # <<>> =>
        /\ slot # None
        /\ \E k \in 1..Len(band_offers) :
              /\ IsFirstLeast(prices, k)
              /\ slot[1].price_text = band_offers[k].price_text
              /\ ~HasDigit(band_offers[k].price_text) =>
                    \A j \in 1..Len(band_offers) : ~HasDigit(band_offers[j].price_text)
        /\ \A k \in 1..Len(band_offers) :
              (prices[k] = Inf) <=> ~HasDigit(band_offers[k].price_text)

BandNames == {"morning", "afternoon"}

\* C6: for every band with at least one offer the slot's price_text is that
\* of the offer with the least parsed price, the first seen winning a tie;
\* a price without a number is +infinity and is chosen only when no offer of
\* the band has a number.
C6_CheapestFirstSeen ==
    fout # None =>
        \A band \in BandNames :
            SlotShowsCheapest(OffersOfBand(fout[1].offers, band),
                              PricesOf(OffersOfBand(fout[1].offers, band)),
                              fout[1].entries[1][band])

\* two morning offers tie at 45 with different texts and the first is shown
C6_Witness ==
    /\ fout # None
    /\ Len(fout[1].offers) = 2
    /\ fout[1].offers[1].band = "morning"
    /\ fout[1].offers[2].band = "morning"
    /\ fout[1].offers[1].price_text = Price45
    /\ fout[1].offers[2].price_text = Price45Plain
    /\ fout[1].entries[1].morning[1].price_text = Price45

\* C7: the merged window of a non-empty list is (earliest start, latest
\* end), compared as minutes of the day: its start is a start of the list
\* and none is earlier, its end is an end of the list and none is later; it
\* is the same window whatever the order of the list, and a single range is
\* returned unchanged.
C7_MergeIsEarliestStartLatestEnd ==
    (fout # None /\ fin # <<>>) =>
        /\ \E a \in 1..Len(fin) : fout[1][1] = fin[a][1]
        /\ \E b \in 1..Len(fin) : fout[1][2] = fin[b][2]
        /\ \A k \in 1..Len(fin) :
              /\ ClockMinutes(fout[1][1]) <= ClockMinutes(fin[k][1])
              /\ ClockMinutes(fout[1][2]) >= ClockMinutes(fin[k][2])
        /\ Len(fin) = 1 => fout[1] = fin[1]
        /\ ClockMinutes(_merge_time_ranges([k \in 1..Len(fin) |-> fin[Len(fin) + 1 - k]])[1])
              = ClockMinutes(fout[1][1])
        /\ ClockMinutes(_merge_time_ranges([k \in 1..Len(fin) |-> fin[Len(fin) + 1 - k]])[2])
              = ClockMinutes(fout[1][2])

\* two ranges out of order: the start comes from the second, the end from
\* the first
C7_Witness ==
    /\ fout # None
    /\ Len(fin) = 2
    /\ ClockMinutes(fin[2][1]) < ClockMinutes(fin[1][1])
    /\ ClockMinutes(fin[1][2]) > ClockMinutes(fin[2][2])
    /\ fout[1] = <<fin[2][1], fin[1][2]>>

\* the block shows an offer with a price
Priced(block) ==
    /\ block.element
    /\ block.innerTextOk
    /\ block.evaluateOk => block.isAvailable
    /\ Strip(block.price_text) # DebugPrice

\* the time range the block carries, None when it carries none
RangeOfBlock(block) ==
    IF block.element /\ block.evaluateOk
    THEN BlockTimeRange(block.timeElements, block.containerText)
    ELSE None

\* the band of the block
BandOfBlock(block) ==
    AssignBand(IF block.element /\ block.evaluateOk THEN block.labelText ELSE <<>>,
               RangeOfBlock(block))

\* C8, as stated: an offer with a price is never dropped because it has no
\* time range: the slot of its band is populated.
C8_OfferWithoutTimeRangeKept ==
    fout # None =>
        \A k \in 1..Len(fin) :
            (Priced(fin[k]) /\ RangeOfBlock(fin[k]) = None) =>
                fout[1].entries[1][BandOfBlock(fin[k])] # None

\* the priced blocks of a band that carry a time range
BlocksWithRange(blocks, band) ==
    {k \in 1..Len(blocks) :
        Priced(blocks[k]) /\ RangeOfBlock(blocks[k]) # None
            /\ BandOfBlock(blocks[k]) = band}

\* C8, amended: an offer without a time range is dropped from aggregation.
\* The slot of a band is populated exactly when an offer of the band carries
\* a time range, its merged time range is then never null, and a band whose
\* offers all lack a time range has a null slot.
C8_OnlyOffersWithTimeRange ==
    fout # None =>
        \A band \in BandNames :
            /\ (fout[1].entries[1][band] # None) <=> (BlocksWithRange(fin, band) # {})
            /\ fout[1].entries[1][band] # None =>
                  fout[1].entries[1][band][1].time_range # None
            /\ \A k \in 1..Len(fout[1].offers) : fout[1].offers[k].time_range # None

\* the only afternoon offer has a price and no time range: its slot is null
C8_Witness ==
    /\ fout # None
    /\ Len(fin) = 2
    /\ Priced(fin[1])
    /\ RangeOfBlock(fin[1]) = None
    /\ fin[1].labelText = Label_Afternoon
    /\ fout[1].entries[1].afternoon = None
    /\ fout[1].entries[1].morning # None

(***************************************************************************)
(* Entries of a run.                                                       *)
(***************************************************************************)
\* both routes have been checked and main.run holds all_available
RunChecked == pc \in {"save", "email", "email_returned", "email_raised", "done"}

\* the entries of a list for date d of route r
EntriesFor(entries, r, d) ==
    {k \in 1..Len(entries) : entries[k].route = RouteNames[r] /\ entries[k].date = d}

\* C9, as stated: every (route, date) checked in the run has exactly one
\* entry in the result collection.
C9_OneEntryPerCheckedDate ==
    RunChecked =>
        \A k \in 1..Len(visited) :
            Cardinality(EntriesFor(all_available, visited[k].route, visited[k].i)) = 1

\* C9, amended: every date of every route is checked once, and a (route,
\* date) whose check did not raise has exactly one entry in the result
\* collection, also when both of its bands are null; one whose check raised
\* (the page did not load, a selector failed) has none.
C9_OneEntryUnlessCheckRaised ==
    /\ RunChecked =>
          /\ \A r \in 1..Len(RouteNames), d \in 1..LastDay :
                Cardinality({k \in 1..Len(visited) :
                                visited[k].route = r /\ visited[k].i = d}) = 1
          /\ \A k \in 1..Len(visited) :
                Cardinality(EntriesFor(all_available, visited[k].route, visited[k].i))
                    = IF visited[k].raised THEN 0 ELSE 1
    /\ pc = "dates" =>
          \A k \in 1..Len(visited) :
              visited[k].route = route =>
                  Cardinality(EntriesFor(results, visited[k].route, visited[k].i))
                      = IF visited[k].raised THEN 0 ELSE 1

\* a run of the site being up in which a check raised, a date had no offer
\* and a date had one
C9_Witness ==
    /\ pc = "save"
    /\ siteUp
    /\ \E k \in 1..Len(visited) : visited[k].raised
    /\ \E k \in 1..Len(all_available) :
          all_available[k].morning = None /\ all_available[k].afternoon = None
    /\ \E k \in 1..Len(all_available) : all_available[k].morning # None
    /\ Len(all_available) = 2 * LastDay - 1

(***************************************************************************)
(* The report.                                                             *)
(***************************************************************************)
\* the position of the n-th token tok of a document
NthIndex(doc, tok, n) ==
    CHOOSE p \in 1..Len(doc) :
        doc[p] = tok /\ Cardinality({j \in 1..p : doc[j] = tok}) = n

\* the content of the n-th cell of a table
Cell(doc, n) ==
    SubSeq(doc, NthIndex(doc, "<td>", n) + 1, NthIndex(doc, "</td>", n) - 1)

\* the price as a link to the source URL
PriceLink(slot) ==
    <<"<a href=\"">> \o slot.url \o <<"\">">> \o slot.price_text \o <<"</a>">>

\* the window text
WindowText(time_range) ==
    <<"<br/><small>between ">> \o time_range[1] \o <<" and ">> \o time_range[2]
        \o <<"</small>">>

\* what the cell of a slot shows
CellShows(cell, slot) ==
    IF slot = None
    THEN cell = <<"a_circ", "euro", "rdquo", "<br/><small>no availability for now</small>">>
    ELSE /\ SubSeq(cell, 1, Len(PriceLink(slot[1]))) = PriceLink(slot[1])
         /\ slot[1].time_range # None =>
               cell = PriceLink(slot[1]) \o WindowText(slot[1].time_range)
         /\ slot[1].time_range = None =>
               \A k \in 1..Len(cell) : cell[k] # "<br/><small>between "

\* C10: in the table of a list of entries, the cell of a null slot is the
\* fixed no-availability placeholder; the cell of a populated slot is its
\* price as a link to the source URL, followed by "between START and END" if
\* and only if the slot has a merged time range; an entry with both slots null
\* is rendered, with the placeholder in both cells.
C10_CellsRendered ==
    fout # None =>
        /\ Cardinality({p \in 1..Len(fout[1]) : fout[1][p] = "<td>"}) = 3 * Len(fin)
        /\ Cardinality({p \in 1..Len(fout[1]) : fout[1][p] = "</td>"}) = 3 * Len(fin)
        /\ \A k \in 1..Len(fin) :
              /\ CellShows(Cell(fout[1], 3 * k - 1), fin[k].morning)
              /\ CellShows(Cell(fout[1], 3 * k), fin[k].afternoon)

\* a table of an entry with both slots null and an entry whose morning has a
\* window and whose afternoon has none
C10_Witness ==
    /\ fout # None
    /\ Len(fin) = 2
    /\ fin[1].morning = None
    /\ fin[1].afternoon = None
    /\ fin[2].morning # None
    /\ fin[2].morning[1].time_range # None
    /\ fin[2].afternoon # None
    /\ fin[2].afternoon[1].time_range = None
    /\ Cell(fout[1], 2) = Cell(fout[1], 3)

(***************************************************************************)
(* The document.                                                           *)
(***************************************************************************)
\* the sections of a document headed by a route
SectionsOf(doc, route_name) ==
    {p \in 1..(Len(doc) - 1) : doc[p] = "<h3>" /\ doc[p + 1] = route_name}

\* the routes that have an entry
RoutesWithEntries(entries) ==
    {r \in 1..Len(RouteNames) :
        \E k \in 1..Len(entries) : entries[k].route = RouteNames[r]}

\* C11, as stated, its first part: with an empty collection a document is
\* still produced and handed to delivery.
C11_EmptyCollectionStillDelivered ==
    (DeliveryEnded /\ all_available = <<>>) => (message # None /\ smtp # <<>>)

\* C11, amended: with an empty collection send_email returns at once:
\* no document is produced and nothing is handed to delivery.  With a
\* collection that is not empty the document is produced, a route without
\* entries has no section in it and every route with an entry has exactly
\* one.
C11_SectionsOfRoutesWithEntries ==
    DeliveryEnded =>
        IF all_available = <<>>
        THEN message = None /\ smtp = <<>> /\ outbox = <<>> /\ email_result = "returned"
        ELSE /\ message # None
             /\ \A r \in 1..Len(RouteNames) :
                   Cardinality(SectionsOf(message, RouteNames[r]))
                       = IF r \in RoutesWithEntries(all_available) THEN 1 ELSE 0
             /\ Cardinality({p \in 1..Len(message) : message[p] = "<h3>"})
                   = Cardinality(RoutesWithEntries(all_available))

\* the second route has an entry and the first has none: one section
C11_Witness ==
    /\ DeliveryEnded
    /\ RoutesWithEntries(all_available) = {2}
    /\ message # None
    /\ SectionsOf(message, RouteNames[2]) # {}
    /\ SectionsOf(message, RouteNames[1]) = {}

-----------------------------------------------------------------------------
\* C12

\* the fragment of the scenario: price "45,00 <euro>", time text
\* "D<e_acute>part entre 06:10 et 14:00", empty label
ScenarioFragment == Block(Price45, <<Time_DepartEntre>>, <<>>, <<>>, TRUE)

\* the entry the scenario expects for the date of the aggregation
ScenarioEntry ==
    [route |-> RouteNames[1], date |-> 1, url |-> Url(SNAP_URLS[1], 1),
     morning |-> <<[price_text |-> Price45,
                    time_range |-> <<TimeText(6, 10), TimeText(14, 0)>>,
                    url |-> Url(SNAP_URLS[1], 1)]>>,
     afternoon |-> None]

\* C12: the scenario fragment alone, for one route and date, produces exactly
\* one entry whose morning slot carries the price "45,00 <euro>" and the time
\* range ("06:10", "14:00") and whose afternoon slot is null.
C12_ScenarioEntry ==
    (fout # None /\ fin = <<ScenarioFragment>>) => fout[1].entries = <<ScenarioEntry>>

-----------------------------------------------------------------------------
\* C13

\* the time range a text of a time form names, zero-padded
NamedRange(f) ==
    <<ClockText(f.sh, f.sm, ":", TRUE), ClockText(f.eh, f.em, ":", TRUE)>>

\* C13: a text of a localized phrase form, of a separator form or of hours
\* without minutes gives the start and the end it names, each as a
\* zero-padded two-digit hour, a colon and two-digit minutes (00 when the
\* text omits them); a text without a time-range pattern (empty, a word, a
\* price, the digits of a day) gives null.
C13_ParseGivesNamedRange ==
    fout # None =>
        fout[1] = IF fin.form \in OtherForms THEN None ELSE NamedRange(fin)

-----------------------------------------------------------------------------
\* C14

\* the dates visited so far are the dates 1..8 of the first route and then
\* of the second, in order, none skipped and none repeated
VisitedInOrder ==
    \A k \in 1..Len(visited) :
        /\ visited[k].route = ((k - 1) \div LastDay) + 1
        /\ visited[k].i = ((k - 1) % LastDay) + 1

\* a step of the loop in which the check of a date raised
DateRaised ==
    /\ Len(visited') = Len(visited) + 1
    /\ visited'[Len(visited')].raised

\* a step in which check_snap returns its list
CheckSnapReturns == pc = "dates" /\ pc' \in {"launch", "save"}

\* C14: an exception raised while a date is checked is caught inside that
\* iteration: the entries collected so far are unchanged and the loop goes on
\* with the next date; the dates of a route are visited in order, entries
\* once collected stay as they are for the rest of the loop, and check_snap
\* returns the collected list only after all 8 dates were visited.
C14_ExceptionStaysInItsDate ==
    /\ [](VisitedInOrder
            /\ (pc = "dates" => Len(visited) = (route - 1) * LastDay + i - 1))
    /\ [][/\ DateRaised =>
               (results' = results /\ pc' = "dates" /\ route' = route /\ i' = i + 1)
          /\ (pc = "dates" /\ pc' = "dates") =>
               (Len(results') >= Len(results)
                   /\ SubSeq(results', 1, Len(results)) = results)
          /\ CheckSnapReturns =>
               /\ i = LastDay + 1
               /\ Len(visited) = route * LastDay
               /\ IF route = 1 THEN snap_1' = results
                  ELSE all_available' = snap_1 \o results]_vars

\* the check of the third date of the first route raised while the site was
\* up, the later dates were checked all the same, and the list check_snap is
\* about to return holds the entries of the seven other dates
C14_Witness ==
    /\ pc = "dates"
    /\ route = 1
    /\ i = LastDay + 1
    /\ siteUp
    /\ visited[3].raised
    /\ Len(results) = LastDay - 1
    /\ results[2].date = 2
    /\ results[3].date = 4
    /\ results[LastDay - 1].date = LastDay

-----------------------------------------------------------------------------
\* C15

\* delivery was attempted: send_email was called
DeliveryAttempted == message # None \/ smtp # <<>> \/ email_result # "none"

\* the row of a band of an entry: it names the entry and the band, and its
\* flag tells whether the slot is there
RowIsOf(row, entry, band) ==
    /\ row.route = entry.route
    /\ row.travel_date = entry.date
    /\ row.band = band
    /\ row.is_available = (entry[band] # None)

\* two rows for every entry, the morning row and then the afternoon row
TwoRowsPerEntry(rows, entries) ==
    /\ Len(rows) = 2 * Len(entries)
    /\ \A k \in 1..Len(entries) :
          /\ RowIsOf(rows[2 * k - 1], entries[k], "morning")
          /\ RowIsOf(rows[2 * k], entries[k], "afternoon")

=============================================================================
